---- MODULE Spec2Model ----
(***************************************************************************)
(* Notes API (src/main.py): a read-only HTTP layer over one document       *)
(* collection.  The collection is written by outside writers only; every   *)
(* handler issues one or two store queries and shapes a response.          *)
(*                                                                         *)
(* Text values (title, body, folder, q) are sequences of one-character     *)
(* strings so that pattern matching can be computed; URLs are strings.     *)
(***************************************************************************)
EXTENDS Integers, Sequences, FiniteSets, TLC

VARIABLES notes, pc, req, total_count, exc, queries, response

vars == <<notes, pc, req, total_count, exc, queries, response>>

\* ---------------------------------------------------------------- bounds
MaxNotes == 3
MaxPage == 3
MaxLimit == 2

\* ------------------------------------------------------ program constants
LimitLe == 100
PageGe == 1
LimitGe == 1
MinLength == 1

\* ---------------------------------------------------------------- values
None == "None"
NoneText == <<"None">>
Missing == <<"missing">>

Lower(c) == IF c = "A" THEN "a" ELSE IF c = "B" THEN "b" ELSE c

Code(c) == IF c = "." THEN 46 ELSE IF c = "A" THEN 65 ELSE IF c = "B" THEN 66
           ELSE IF c = "a" THEN 97 ELSE IF c = "b" THEN 98 ELSE 0

IsText(v) == v # NoneText /\ v # Missing

RECURSIVE Str(_)
Str(t) == IF t = <<>> THEN "" ELSE Head(t) \o Str(Tail(t))

\* The documents outside writers may store.
Universe ==
  { [_id |-> 1, title |-> <<"A", "b">>, body |-> <<"b">>,      folder |-> <<"A">>],
    [_id |-> 2, title |-> <<"b">>,      body |-> <<"a", ".">>, folder |-> <<"A">>],
    [_id |-> 3, title |-> <<"B">>,      body |-> <<>>,         folder |-> <<"a", "b">>],
    [_id |-> 4, title |-> <<"a">>,      body |-> NoneText,     folder |-> NoneText],
    [_id |-> 5, title |-> <<"b", "a">>, body |-> <<"B">>,      folder |-> Missing] }

StoreErrors == {"connection refused", "operation timed out"}
Outcomes == {"ok"} \cup StoreErrors

Pages == 0..MaxPage
Limits == (0..MaxLimit) \cup {LimitLe, LimitLe + 1}
Queries == { <<>>, <<"a">>, <<"B">>, <<".">>, <<"a", ".">> }
FolderParams == { NoneText, <<>>, <<"A">> }
FolderNames == { <<"A">>, <<"a">>, <<"a", "b">> }

NoReq == [op |-> "none", page |-> 0, limit |-> 0, q |-> <<>>, folder |-> NoneText]
NoResponse == [status |-> 0]

Min(a, b) == IF a < b THEN a ELSE b
Max(a, b) == IF a > b THEN a ELSE b

\* ------------------------------------------------------------ the store
\* $regex with $options "i": the pattern is searched anywhere in the value;
\* "." is the metacharacter matching any character, every other character
\* of the alphabet is a literal.  A null or absent field never matches.
regex(value, q) ==
  /\ IsText(value)
  /\ \E i \in 1..(Len(value) - Len(q) + 1) :
       \A j \in 1..Len(q) : q[j] = "." \/ Lower(q[j]) = Lower(value[i + j - 1])

\* A query document: {} | {"folder": f} | {"$or": [title ~ q, body ~ q]} with
\* an optional "folder" key.  NoKey marks a key the query does not have.
NoKey == <<"nokey">>

query_all == [folder |-> NoKey, or_regex |-> NoKey]
query_folder_any(folder_name) == [folder |-> NoKey, or_regex |-> NoKey]

\* {"folder": folder_name}
query_folder(folder_name) == [folder |-> folder_name, or_regex |-> NoKey]

matches(doc, query) ==
  /\ query.folder = NoKey \/ doc.folder = query.folder
  /\ query.or_regex = NoKey \/ regex(doc.title, query.or_regex) \/ regex(doc.body, query.or_regex)

find(coll, query) == SelectSeq(coll, LAMBDA doc : matches(doc, query))

count_documents(coll, query) == Len(find(coll, query))

skip_limit_unbounded(docs, skip, limit) == SubSeq(docs, skip + 1, Len(docs))

\* cursor.skip(skip).limit(limit)
skip_limit(docs, skip, limit) == SubSeq(docs, skip + 1, Min(skip + limit, Len(docs)))

\* $sample {size: 1}: the possible results, each a list of at most one document.
sample(coll) == IF coll = <<>> THEN { <<>> } ELSE { <<coll[i]>> : i \in 1..Len(coll) }

group_id_raw(doc) == doc.folder

\* $group {_id: "$folder"}: null and absent values form the null group.
group_id(doc) == IF IsText(doc.folder) THEN doc.folder ELSE NoneText

group_ids(coll) == { group_id(coll[i]) : i \in 1..Len(coll) }

group_sum(coll, id) == Cardinality({ i \in 1..Len(coll) : group_id(coll[i]) = id })

Orderings(S) == { s \in [1..Cardinality(S) -> S] : \A i, j \in DOMAIN s : i # j => s[i] # s[j] }

\* {"$sort": {"note_count": -1}}: every order the store may produce (ties are free).
sort_note_count(S) ==
  { s \in Orderings(S) : \A i, j \in DOMAIN s : i < j => s[i].note_count >= s[j].note_count }

RECURSIVE TextLess(_, _)
TextLess(a, b) ==
  IF b = <<>> THEN FALSE
  ELSE IF a = <<>> THEN TRUE
  ELSE IF Code(Head(a)) # Code(Head(b)) THEN Code(Head(a)) < Code(Head(b))
  ELSE TextLess(Tail(a), Tail(b))

\* {"$sort": {"name": 1}}
sort_name(S) ==
  CHOOSE s \in Orderings(S) : \A i, j \in DOMAIN s : i < j => TextLess(s[i].name, s[j].name)

\* ----------------------------------------------------------- serializing
serialize_doc(doc) ==
  [id |-> ToString(doc._id), title |-> doc.title, body |-> doc.body, folder |-> doc.folder]

serialize_docs(docs) == [i \in DOMAIN docs |-> serialize_doc(docs[i])]

\* --------------------------------------------------------------- errors
PyMongoError(msg) == [type |-> "PyMongoError", status_code |-> 0, detail |-> msg]
HTTPException(status_code, detail) ==
  [type |-> "HTTPException", status_code |-> status_code, detail |-> detail]
NoExc == [type |-> "none", status_code |-> 0, detail |-> ""]

\* str(e): the message of a store error; for an HTTPException either
\* "<status_code>: <detail>" or "" depending on the framework release.
str(e) ==
  IF e.type = "HTTPException"
  THEN { ToString(e.status_code) \o ": " \o e.detail, "" }
  ELSE { e.detail }

except_Exception_generic(e) == { [status |-> 500, detail |-> "Internal Server Error"] }

\* except Exception as e: raise HTTPException(status_code=500, detail=str(e))
except_Exception(e) == { [status |-> 500, detail |-> d] : d \in str(e) }

\* ----------------------------------------------------------- pagination
skip_of_page(page, limit) == page * limit

\* skip = (page - 1) * limit
skip_of(page, limit) == (page - 1) * limit

total_pages_floor(count, limit) == count \div limit

\* math.ceil(total_count / limit)
total_pages(count, limit) ==
  IF count % limit = 0 THEN count \div limit ELSE count \div limit + 1

next_url(path, page, limit, count) ==
  IF page < total_pages(count, limit)
  THEN path \o "?page=" \o ToString(page + 1) \o "&limit=" \o ToString(limit)
  ELSE None

prev_url(path, page, limit) ==
  IF page > 1
  THEN path \o "?page=" \o ToString(page - 1) \o "&limit=" \o ToString(limit)
  ELSE None

ValidPage(page) == page >= PageGe
ValidLimit(limit) == limit >= LimitGe /\ limit <= LimitLe
ValidQ(q) == Len(q) >= MinLength

\* ----------------------------------------------------------------- Init
Init ==
  /\ notes = <<>>
  /\ pc = "idle"
  /\ req = NoReq
  /\ total_count = 0
  /\ exc = NoExc
  /\ queries = 0
  /\ response = NoResponse

\* ------------------------------------------------------- outside writers
\* Notes are created and deleted outside the API, at any moment.
Insert(doc) ==
  /\ Len(notes) < MaxNotes
  /\ \A i \in 1..Len(notes) : notes[i]._id # doc._id
  /\ notes' = Append(notes, doc)
  /\ UNCHANGED <<pc, req, total_count, exc, queries, response>>

Delete(i) ==
  /\ i \in 1..Len(notes)
  /\ notes' = SubSeq(notes, 1, i - 1) \o SubSeq(notes, i + 1, Len(notes))
  /\ UNCHANGED <<pc, req, total_count, exc, queries, response>>

\* ------------------------------------------------------------- handlers
Request(op, page, limit, q, folder) ==
  [op |-> op, page |-> page, limit |-> limit, q |-> q, folder |-> folder]

\* The except clause of a handler: e was raised inside the try block.
Raise(e) ==
  /\ exc' = e
  /\ response' \in except_Exception(e)
  /\ pc' = "done"

Return(body) ==
  /\ exc' = NoExc
  /\ response' = body
  /\ pc' = "done"

\* Query(..., ge=, le=, min_length=): the framework rejects the request
\* before the handler runs.
RequestValidationError(op, page, limit, q) ==
  /\ pc = "idle"
  /\ \/ op \in {"get_notes", "get_notes_by_folder"} /\ ~(ValidPage(page) /\ ValidLimit(limit))
        /\ q = <<>>
     \/ op \in {"search_notes", "search_folders"} /\ ~ValidQ(q) /\ page = 0 /\ limit = 0
  /\ req' = Request(op, page, limit, q, NoneText)
  /\ exc' = NoExc
  /\ response' = [status |-> 422]
  /\ pc' = "done"
  /\ UNCHANGED <<notes, total_count, queries>>

\* get_notes up to and including count_documents({})
GetNotesCount(page, limit, outcome) ==
  /\ pc = "idle"
  /\ ValidPage(page) /\ ValidLimit(limit)
  /\ req' = Request("get_notes", page, limit, <<>>, NoneText)
  /\ queries' = 1
  /\ IF outcome = "ok"
     THEN /\ total_count' = count_documents(notes, query_all)
          /\ pc' = "find"
          /\ UNCHANGED <<exc, response>>
     ELSE /\ Raise(PyMongoError(outcome))
          /\ UNCHANGED total_count
  /\ UNCHANGED notes

\* get_notes from find({}).skip(skip).limit(limit) to the response
GetNotesFind(outcome) ==
  /\ pc = "find"
  /\ req.op = "get_notes"
  /\ queries' = queries + 1
  /\ IF outcome = "ok"
     THEN LET skip == skip_of(req.page, req.limit)
              docs == skip_limit(find(notes, query_all), skip, req.limit)
          IN Return([status |-> 200,
                     results |-> serialize_docs(docs),
                     count |-> total_count,
                     next |-> next_url("/notes/", req.page, req.limit, total_count),
                     previous |-> prev_url("/notes/", req.page, req.limit)])
     ELSE Raise(PyMongoError(outcome))
  /\ UNCHANGED <<notes, req, total_count>>

\* search_notes
SearchNotes(q, folder, outcome) ==
  /\ pc = "idle"
  /\ ValidQ(q)
  /\ req' = Request("search_notes", 0, 0, q, folder)
  /\ queries' = 1
  /\ IF outcome = "ok"
     THEN LET search_query ==
                [or_regex |-> q,
                 folder |-> IF folder # NoneText /\ folder # <<>> THEN folder ELSE NoKey]
          IN Return([status |-> 200, data |-> serialize_docs(find(notes, search_query))])
     ELSE Raise(PyMongoError(outcome))
  /\ UNCHANGED <<notes, total_count>>

\* get_random_note
GetRandomNote(outcome) ==
  /\ pc = "idle"
  /\ req' = Request("get_random_note", 0, 0, <<>>, NoneText)
  /\ queries' = 1
  /\ IF outcome = "ok"
     THEN \E sampled \in sample(notes) :
            IF sampled = <<>>
            THEN Raise(HTTPException(404, "No notes found"))
            ELSE Return([status |-> 200, data |-> serialize_doc(sampled[1])])
     ELSE Raise(PyMongoError(outcome))
  /\ UNCHANGED <<notes, total_count>>

\* get_folders
GetFolders(outcome) ==
  /\ pc = "idle"
  /\ req' = Request("get_folders", 0, 0, <<>>, NoneText)
  /\ queries' = 1
  /\ IF outcome = "ok"
     THEN LET groups == { [name |-> id, note_count |-> group_sum(notes, id)] :
                          id \in group_ids(notes) }
          IN \E folders \in sort_note_count(groups) :
               Return([status |-> 200, data |-> folders])
     ELSE Raise(PyMongoError(outcome))
  /\ UNCHANGED <<notes, total_count>>

\* search_folders
SearchFolders(q, outcome) ==
  /\ pc = "idle"
  /\ ValidQ(q)
  /\ req' = Request("search_folders", 0, 0, q, NoneText)
  /\ queries' = 1
  /\ IF outcome = "ok"
     THEN LET matched == { id \in group_ids(notes) : regex(id, q) }
              folders == sort_name({ [name |-> id] : id \in matched })
          IN Return([status |-> 200, data |-> folders])
     ELSE Raise(PyMongoError(outcome))
  /\ UNCHANGED <<notes, total_count>>

\* get_folder_with_notes
GetFolderWithNotes(folder_name, outcome) ==
  /\ pc = "idle"
  /\ req' = Request("get_folder_with_notes", 0, 0, <<>>, folder_name)
  /\ queries' = 1
  /\ IF outcome = "ok"
     THEN LET docs == find(notes, query_folder(folder_name))
          IN IF docs = <<>>
             THEN Raise(HTTPException(404, "Folder not found or no notes in folder"))
             ELSE Return([status |-> 200,
                          folder_name |-> folder_name,
                          note_count |-> Len(docs),
                          notes |-> serialize_docs(docs)])
     ELSE Raise(PyMongoError(outcome))
  /\ UNCHANGED <<notes, total_count>>

\* get_notes_by_folder up to the find query
GetNotesByFolderCount(folder_name, page, limit, outcome) ==
  /\ pc = "idle"
  /\ ValidPage(page) /\ ValidLimit(limit)
  /\ req' = Request("get_notes_by_folder", page, limit, <<>>, folder_name)
  /\ queries' = 1
  /\ IF outcome = "ok"
     THEN /\ total_count' = count_documents(notes, query_folder(folder_name))
          /\ IF total_count' = 0
             THEN Raise(HTTPException(404, "Folder not found or no notes in folder"))
             ELSE pc' = "find" /\ UNCHANGED <<exc, response>>
     ELSE /\ Raise(PyMongoError(outcome))
          /\ UNCHANGED total_count
  /\ UNCHANGED notes

\* get_notes_by_folder from the find query to the response
GetNotesByFolderFind(outcome) ==
  /\ pc = "find"
  /\ req.op = "get_notes_by_folder"
  /\ queries' = queries + 1
  /\ IF outcome = "ok"
     THEN LET skip == skip_of(req.page, req.limit)
              docs == skip_limit(find(notes, query_folder(req.folder)), skip, req.limit)
              path == "/notes/by-folder/" \o Str(req.folder)
          IN Return([status |-> 200,
                     results |-> serialize_docs(docs),
                     count |-> total_count,
                     folder |-> req.folder,
                     next |-> next_url(path, req.page, req.limit, total_count),
                     previous |-> prev_url(path, req.page, req.limit)])
     ELSE Raise(PyMongoError(outcome))
  /\ UNCHANGED <<notes, req, total_count>>

\* The response is sent; the handler keeps nothing.
Respond ==
  /\ pc = "done"
  /\ pc' = "idle"
  /\ req' = NoReq
  /\ total_count' = 0
  /\ exc' = NoExc
  /\ queries' = 0
  /\ response' = NoResponse
  /\ UNCHANGED notes

Next ==
  \/ \E doc \in Universe : Insert(doc)
  \/ \E i \in 1..MaxNotes + 1 : Delete(i)
  \/ \E op \in {"get_notes", "get_notes_by_folder", "search_notes", "search_folders"},
        page \in Pages, limit \in Limits, q \in Queries :
       RequestValidationError(op, page, limit, q)
  \/ \E page \in Pages, limit \in Limits, outcome \in Outcomes :
       GetNotesCount(page, limit, outcome)
  \/ \E outcome \in Outcomes : GetNotesFind(outcome)
  \/ \E q \in Queries, folder \in FolderParams, outcome \in Outcomes :
       SearchNotes(q, folder, outcome)
  \/ \E outcome \in Outcomes : GetRandomNote(outcome)
  \/ \E outcome \in Outcomes : GetFolders(outcome)
  \/ \E q \in Queries, outcome \in Outcomes : SearchFolders(q, outcome)
  \/ \E folder_name \in FolderNames, outcome \in Outcomes :
       GetFolderWithNotes(folder_name, outcome)
  \/ \E folder_name \in FolderNames, page \in Pages, limit \in Limits, outcome \in Outcomes :
       GetNotesByFolderCount(folder_name, page, limit, outcome)
  \/ \E outcome \in Outcomes : GetNotesByFolderFind(outcome)
  \/ Respond

Spec == Init /\ [][Next]_vars

\* =============================================================== claims
\* A step in which the handler of op produces its response.
Completes(op) == pc # "done" /\ pc' = "done" /\ req'.op = op

StoreFailed(e) == e.type = "PyMongoError"

\* text contains q as a substring, ignoring letter case (no metacharacters)
ContainsIgnoreCase(text, q) ==
  /\ text # NoneText /\ text # Missing
  /\ \E i \in 1..(Len(text) - Len(q) + 1) :
       \A j \in 1..Len(q) : Lower(q[j]) = Lower(text[i + j - 1])

\* the indices of the notes a paginated listing is about
MatchingIdx(coll, r) ==
  { i \in 1..Len(coll) : r.op = "get_notes" \/ coll[i].folder = r.folder }

\* the i-th (in natural order) element of a set of indices
RECURSIVE NthIdx(_, _)
NthIdx(S, n) ==
  LET m == CHOOSE x \in S : \A y \in S : x <= y
  IN IF n = 1 THEN m ELSE NthIdx(S \ {m}, n - 1)

RECURSIVE SumNoteCount(_)
SumNoteCount(d) == IF d = <<>> THEN 0 ELSE Head(d).note_count + SumNoteCount(Tail(d))

FolderValue(doc) == IF doc.folder = NoneText \/ doc.folder = Missing THEN NoneText ELSE doc.folder

\* C1: GET /notes/random/ answers 404 whenever the collection is empty, and
\* on a non-empty collection (store not failing) answers 200 with exactly
\* one note that is a member of the collection.
C1_RandomNoteNotFound ==
  [][ (Completes("get_random_note") /\ ~StoreFailed(exc')) =>
        /\ notes = <<>> => response'.status = 404
        /\ notes # <<>> =>
             /\ response'.status = 200
             /\ \E i \in 1..Len(notes) :
                  /\ response'.data.id = ToString(notes[i]._id)
                  /\ response'.data.title = notes[i].title
                  /\ response'.data.body = notes[i].body
                  /\ response'.data.folder = notes[i].folder ]_vars

\* C2: for valid page and limit and the store not failing, both
\* folder-scoped operations answer 404 when no note has a folder
\* value exactly equal to the name, and never answer 404 when one exists.
C2_FolderNotFound ==
  [][ ((Completes("get_folder_with_notes") \/ Completes("get_notes_by_folder"))
        /\ ~StoreFailed(exc') /\ response'.status # 422) =>
        LET present == \E i \in 1..Len(notes) : notes[i].folder = req'.folder
        IN /\ (pc = "idle" /\ ~present) => response'.status = 404
           /\ present => response'.status # 404 ]_vars

\* C3: a successful paginated listing returns exactly the window of the
\* matching notes starting at offset (page-1)*limit and holding at most limit
\* notes, and returns as count the total number of matching notes (as of the
\* count query), whatever page and limit are.
C3_PaginatedWindow ==
  [][ /\ (pc = "idle" /\ pc' = "find") =>
           total_count' = Cardinality(MatchingIdx(notes, req'))
      /\ (pc = "find" /\ pc' = "done" /\ response'.status = 200) =>
           LET m == MatchingIdx(notes, req)
               off == (req.page - 1) * req.limit
               res == response'.results
           IN /\ Len(res) <= req.limit
              /\ Len(res) = Min(req.limit, Max(0, Cardinality(m) - off))
              /\ \A k \in 1..Len(res) :
                   LET doc == notes[NthIdx(m, off + k)]
                   IN /\ res[k].id = ToString(doc._id)
                      /\ res[k].title = doc.title
                      /\ res[k].body = doc.body
                      /\ res[k].folder = doc.folder
              /\ response'.count = total_count ]_vars

C3_Witness ==
  /\ pc = "done" /\ req.op = "get_notes_by_folder" /\ response.status = 200
  /\ req.page = 2 /\ req.limit = 1 /\ Len(response.results) = 1
  /\ Len(notes) = 3 /\ response.count = 2

Paginated(r) == r.op = "get_notes" \/ r.op = "get_notes_by_folder"

\* C4: in every successful paginated response next is non-null iff
\* page*limit < count and then names page+1 with the same limit; previous is
\* non-null iff page > 1 and then names page-1 with the same limit.  Page 1
\* with limit 2 over more than 2 notes gives next = "/notes/?page=2&limit=2"
\* and previous = null.
C4_NextPrevious ==
  (pc = "done" /\ Paginated(req) /\ response.status = 200) =>
    LET path == IF req.op = "get_notes" THEN "/notes/"
                ELSE "/notes/by-folder/" \o Str(req.folder)
        link(n) == path \o "?page=" \o ToString(n) \o "&limit=" \o ToString(req.limit)
    IN /\ response.next # None <=> req.page * req.limit < response.count
       /\ response.next # None => response.next = link(req.page + 1)
       /\ response.previous # None <=> req.page > 1
       /\ response.previous # None => response.previous = link(req.page - 1)
       /\ (req.op = "get_notes" /\ req.page = 1 /\ req.limit = 2 /\ response.count > 2) =>
            response.next = "/notes/?page=2&limit=2" /\ response.previous = None

C4_Witness ==
  /\ pc = "done" /\ req.op = "get_notes" /\ response.status = 200
  /\ req.page = 1 /\ req.limit = 2 /\ response.count = 3
  /\ response.next = "/notes/?page=2&limit=2" /\ response.previous = None

\* C5: search notes returns exactly the notes whose title or body contains q
\* as a substring ignoring case, restricted, whenever a folder parameter is
\* given, to the notes whose folder equals it exactly.
C5_SearchNotes ==
  [][ (Completes("search_notes") /\ response'.status = 200) =>
        LET hit == { i \in 1..Len(notes) :
                       /\ ContainsIgnoreCase(notes[i].title, req'.q)
                            \/ ContainsIgnoreCase(notes[i].body, req'.q)
                       /\ req'.folder # NoneText => notes[i].folder = req'.folder }
            res == response'.data
        IN /\ Len(res) = Cardinality(hit)
           /\ \A i \in hit : \E k \in 1..Len(res) : res[k].id = ToString(notes[i]._id) ]_vars

\* C6: list folders returns one entry per distinct folder value (absent and
\* null forming one group), each with the number of notes of that value, the
\* counts summing to the number of notes, ordered by note_count descending.
C6_ListFolders ==
  [][ (Completes("get_folders") /\ response'.status = 200) =>
        LET d == response'.data
        IN /\ \A i \in 1..Len(notes) :
                Cardinality({ k \in 1..Len(d) : d[k].name = FolderValue(notes[i]) }) = 1
           /\ \A k \in 1..Len(d) :
                /\ d[k].note_count >= 1
                /\ d[k].note_count =
                     Cardinality({ i \in 1..Len(notes) : FolderValue(notes[i]) = d[k].name })
           /\ SumNoteCount(d) = Len(notes)
           /\ \A k \in 1..(Len(d) - 1) : d[k].note_count >= d[k + 1].note_count ]_vars

C6_Witness ==
  /\ pc = "done" /\ req.op = "get_folders" /\ response.status = 200
  /\ response.data = << [name |-> <<"A">>, note_count |-> 2],
                        [name |-> <<"a", "b">>, note_count |-> 1] >>

\* C7: search folders returns each distinct folder value whose name contains
\* q ignoring case exactly once, none that does not contain q, in ascending
\* order of name.
C7_SearchFolders ==
  [][ (Completes("search_folders") /\ response'.status = 200) =>
        LET d == response'.data
            want == { FolderValue(notes[i]) : i \in 1..Len(notes) }
        IN /\ \A i \in 1..Len(notes) :
                ContainsIgnoreCase(notes[i].folder, req'.q) =>
                  Cardinality({ k \in 1..Len(d) : d[k].name = notes[i].folder }) = 1
           /\ \A k \in 1..Len(d) :
                d[k].name \in want /\ ContainsIgnoreCase(d[k].name, req'.q)
           /\ \A k \in 1..(Len(d) - 1) : TextLess(d[k].name, d[k + 1].name) ]_vars

\* C8: a successful get folder with notes returns exactly all notes whose
\* folder equals the name, note_count equal to their number, and folder_name
\* equal to the requested name.
C8_FolderWithNotes ==
  [][ (Completes("get_folder_with_notes") /\ response'.status = 200) =>
        LET r == response'
            m == { i \in 1..Len(notes) : notes[i].folder = req'.folder }
        IN /\ Len(r.notes) = Cardinality(m)
           /\ \A k \in 1..Len(r.notes) :
                LET doc == notes[NthIdx(m, k)]
                IN /\ r.notes[k].id = ToString(doc._id)
                   /\ r.notes[k].title = doc.title
                   /\ r.notes[k].body = doc.body
                   /\ r.notes[k].folder = req'.folder
           /\ r.note_count = Len(r.notes)
           /\ r.folder_name = req'.folder ]_vars

C8_Witness ==
  /\ pc = "done" /\ req.op = "get_folder_with_notes" /\ response.status = 200
  /\ req.folder = <<"A">> /\ response.note_count = 2 /\ Len(notes) = 3

\* C9: when a store query of a handler fails, the response is a 500 whose
\* detail is the underlying message and nothing else (no partial results),
\* also when the failing query is the find after a successful count; the
\* failed query is not issued again.
C9_StoreFailure ==
  (pc = "done" /\ StoreFailed(exc)) =>
    /\ response = [status |-> 500, detail |-> exc.detail]
    /\ exc.detail \in StoreErrors
    /\ queries <= (IF Paginated(req) THEN 2 ELSE 1)

C9_Witness ==
  /\ pc = "done" /\ StoreFailed(exc) /\ queries = 2 /\ total_count > 0
  /\ response.status = 500 /\ response.detail = "operation timed out"

\* C10 (as stated): in every successful paginated response
\* (page-1)*limit + length(results) <= count, and a successful
\* list-notes-by-folder response with page=1 never has empty results.
C10_CountCoversResults ==
  (pc = "done" /\ Paginated(req) /\ response.status = 200) =>
    /\ (req.page - 1) * req.limit + Len(response.results) <= response.count
    /\ (req.op = "get_notes_by_folder" /\ req.page = 1) => response.results # <<>>

\* C10 (amended): when the collection holds as many matching notes at the
\* find query as at the count query, length(results) =
\* min(limit, max(0, count - (page-1)*limit)); so a non-empty results has
\* (page-1)*limit + length(results) <= count, and a successful
\* list-notes-by-folder response with page=1 has non-empty results.
C10_SameStateWhenUnchanged ==
  [][ (pc = "find" /\ pc' = "done" /\ response'.status = 200
        /\ Cardinality(MatchingIdx(notes, req)) = total_count) =>
        LET res == response'.results
            off == (req.page - 1) * req.limit
        IN /\ Len(res) = Min(req.limit, Max(0, response'.count - off))
           /\ res # <<>> => off + Len(res) <= response'.count
           /\ (req.op = "get_notes_by_folder" /\ req.page = 1) => res # <<>> ]_vars

C10_Witness ==
  /\ pc = "done" /\ req.op = "get_notes_by_folder" /\ response.status = 200
  /\ req.page = 1 /\ req.limit = 1 /\ response.count = 2
  /\ Len(response.results) = 1
  /\ Cardinality(MatchingIdx(notes, req)) = 2

====
